---- MODULE Spec2Model ----
(***************************************************************************)
(* Verification model of the OpenTelemetry attribute mapper                *)
(* (mapOtelAttributes) of the event-ingestion code.                        *)
(*                                                                         *)
(* JavaScript values are records [type, text, items]:                      *)
(*   type  : "undefined" | "null" | "boolean" | "number" | "string"        *)
(*           | "array" | "object"                                          *)
(*   text  : the characters of a string, the decimal digits of a number,   *)
(*           the letters true/false of a boolean, <<>> otherwise           *)
(*   items : the elements of an array, or key1, value1, key2, value2, ...  *)
(*           of an object (keys are string values), <<>> otherwise         *)
(* A string is a sequence of one-character strings, so that decoding JSON  *)
(* is a computation over the characters.                                   *)
(***************************************************************************)
EXTENDS Integers, Sequences, FiniteSets, TLC

\* ------------------------------------------------------------------ values

Undefined == [type |-> "undefined", text |-> <<>>, items |-> <<>>]

Null == [type |-> "null", text |-> <<>>, items |-> <<>>]

Bool(chars) == [type |-> "boolean", text |-> chars, items |-> <<>>]

Num(digits) == [type |-> "number", text |-> digits, items |-> <<>>]

Str(chars) == [type |-> "string", text |-> chars, items |-> <<>>]

Arr(elems) == [type |-> "array", text |-> <<>>, items |-> elems]

Obj(members) == [type |-> "object", text |-> <<>>, items |-> members]

\* JavaScript's typeof: null, arrays and objects are all "object".
TypeOf(v) ==
    IF v.type \in {"null", "array", "object"} THEN "object" ELSE v.type

\* ------------------------------------------------------------ JSON decoding

Digits == {"0", "1", "2", "3", "4", "5", "6", "7", "8", "9"}

ParseFail == [ok |-> FALSE, val |-> Undefined, pos |-> 0]

ParseOk(v, p) == [ok |-> TRUE, val |-> v, pos |-> p]

RECURSIVE SkipWs(_, _)
\* index of the first character of s at or after i that is not a space
SkipWs(s, i) ==
    IF i <= Len(s) /\ s[i] = " " THEN SkipWs(s, i + 1) ELSE i

RECURSIVE ScanDigits(_, _)
\* index of the first character of s at or after i that is not a digit
ScanDigits(s, i) ==
    IF i <= Len(s) /\ s[i] \in Digits THEN ScanDigits(s, i + 1) ELSE i

RECURSIVE ScanQuote(_, _)
\* index of the closing quote of a string literal whose body starts at i;
\* 0 when the literal is not closed (or holds a backslash: escapes are
\* outside the decoded subset)
ScanQuote(s, i) ==
    IF i > Len(s) \/ s[i] = "\\" THEN 0
    ELSE IF s[i] = "\"" THEN i
    ELSE ScanQuote(s, i + 1)

StartsWith(s, i, lit) ==
    /\ i + Len(lit) - 1 <= Len(s)
    /\ SubSeq(s, i, i + Len(lit) - 1) = lit

RECURSIVE PutMember(_, _, _, _)
\* members with key k set to v: a repeated key keeps its place and takes the
\* later value
PutMember(members, k, v, i) ==
    IF i > Len(members) THEN members \o <<k, v>>
    ELSE IF members[i] = k THEN [members EXCEPT ![i + 1] = v]
    ELSE PutMember(members, k, v, i + 2)

ParseString(s, i) ==
    IF i <= Len(s) /\ s[i] = "\""
    THEN LET q == ScanQuote(s, i + 1)
         IN  IF q = 0 THEN ParseFail
             ELSE ParseOk(Str(SubSeq(s, i + 1, q - 1)), q + 1)
    ELSE ParseFail

ParseNumber(s, i) ==
    LET e == ScanDigits(s, i)
    IN  IF e = i \/ (s[i] = "0" /\ e > i + 1) THEN ParseFail
        ELSE ParseOk(Num(SubSeq(s, i, e - 1)), e)

RECURSIVE ParseValue(_, _)
RECURSIVE ParseElements(_, _, _)
RECURSIVE ParseMembers(_, _, _)

\* one JSON value starting at or after i (leading spaces skipped); pos is the
\* index after the value
ParseValue(s, i) ==
    LET j == SkipWs(s, i)
    IN  IF j > Len(s) THEN ParseFail
        ELSE IF StartsWith(s, j, <<"n", "u", "l", "l">>)
             THEN ParseOk(Null, j + 4)
        ELSE IF StartsWith(s, j, <<"t", "r", "u", "e">>)
             THEN ParseOk(Bool(<<"t", "r", "u", "e">>), j + 4)
        ELSE IF StartsWith(s, j, <<"f", "a", "l", "s", "e">>)
             THEN ParseOk(Bool(<<"f", "a", "l", "s", "e">>), j + 5)
        ELSE IF s[j] \in Digits THEN ParseNumber(s, j)
        ELSE IF s[j] = "\"" THEN ParseString(s, j)
        ELSE IF s[j] = "["
             THEN LET k == SkipWs(s, j + 1)
                  IN  IF k <= Len(s) /\ s[k] = "]"
                      THEN ParseOk(Arr(<<>>), k + 1)
                      ELSE ParseElements(s, j + 1, <<>>)
        ELSE IF s[j] = "{"
             THEN LET k == SkipWs(s, j + 1)
                  IN  IF k <= Len(s) /\ s[k] = "}"
                      THEN ParseOk(Obj(<<>>), k + 1)
                      ELSE ParseMembers(s, j + 1, <<>>)
        ELSE ParseFail

\* the elements of an array after its "[" or after a ",", up to its "]"
ParseElements(s, i, acc) ==
    LET r == ParseValue(s, i)
    IN  IF ~r.ok THEN ParseFail
        ELSE LET k == SkipWs(s, r.pos)
             IN  IF k > Len(s) THEN ParseFail
                 ELSE IF s[k] = "," THEN ParseElements(s, k + 1, Append(acc, r.val))
                 ELSE IF s[k] = "]" THEN ParseOk(Arr(Append(acc, r.val)), k + 1)
                 ELSE ParseFail

\* the members of an object after its "{" or after a ",", up to its "}"
ParseMembers(s, i, acc) ==
    LET key == ParseString(s, SkipWs(s, i))
    IN  IF ~key.ok THEN ParseFail
        ELSE LET c == SkipWs(s, key.pos)
             IN  IF c > Len(s) \/ s[c] # ":" THEN ParseFail
                 ELSE LET r == ParseValue(s, c + 1)
                      IN  IF ~r.ok THEN ParseFail
                          ELSE LET k == SkipWs(s, r.pos)
                                   m == PutMember(acc, key.val, r.val, 1)
                               IN  IF k > Len(s) THEN ParseFail
                                   ELSE IF s[k] = "," THEN ParseMembers(s, k + 1, m)
                                   ELSE IF s[k] = "}" THEN ParseOk(Obj(m), k + 1)
                                   ELSE ParseFail

\* parseJSON(json): the decoded value, or a throw when json is not exactly
\* one JSON value (surrounding spaces allowed)
parseJSON(json) ==
    LET r == ParseValue(json, 1)
    IN  IF r.ok /\ SkipWs(json, r.pos) > Len(json)
        THEN [threw |-> FALSE, value |-> r.val]
        ELSE [threw |-> TRUE, value |-> Undefined]

\* ------------------------------------------------------------ property bags

\* properties[k] of a JavaScript object: undefined when k is not a key
Get(properties, k) ==
    IF k \in DOMAIN properties THEN properties[k] ELSE Undefined

\* properties[k] = v
Put(properties, k, v) ==
    [x \in (DOMAIN properties) \cup {k} |-> IF x = k THEN v ELSE properties[x]]

\* delete properties[k]
Delete(properties, k) ==
    [x \in (DOMAIN properties) \ {k} |-> properties[x]]

EmptyBag == [x \in {} |-> Undefined]

\* ------------------------------------------------------- the mapping tables

\* ATTRIBUTE_MAP without its last entry
ATTRIBUTE_MAP_WithoutProvider ==
    << <<"gen_ai.input.messages", "$ai_input">>,
       <<"gen_ai.output.messages", "$ai_output_choices">>,
       <<"gen_ai.usage.input_tokens", "$ai_input_tokens">>,
       <<"gen_ai.usage.output_tokens", "$ai_output_tokens">>,
       <<"gen_ai.request.model", "$ai_model">> >>

\* ATTRIBUTE_MAP with the provider name renamed to another source key
ATTRIBUTE_MAP_Chained ==
    << <<"gen_ai.input.messages", "$ai_input">>,
       <<"gen_ai.output.messages", "$ai_output_choices">>,
       <<"gen_ai.usage.input_tokens", "$ai_input_tokens">>,
       <<"gen_ai.usage.output_tokens", "$ai_output_tokens">>,
       <<"gen_ai.request.model", "$ai_model">>,
       <<"gen_ai.provider.name", "gen_ai.request.model">> >>

\* the entries of ATTRIBUTE_MAP in the order Object.entries yields them
ATTRIBUTE_MAP ==
    << <<"gen_ai.input.messages", "$ai_input">>,
       <<"gen_ai.output.messages", "$ai_output_choices">>,
       <<"gen_ai.usage.input_tokens", "$ai_input_tokens">>,
       <<"gen_ai.usage.output_tokens", "$ai_output_tokens">>,
       <<"gen_ai.request.model", "$ai_model">>,
       <<"gen_ai.provider.name", "$ai_provider">> >>

\* JSON_PARSE_PROPERTIES without the output choices
JSON_PARSE_PROPERTIES_InputOnly == {"$ai_input"}

\* JSON_PARSE_PROPERTIES with the input token count added
JSON_PARSE_PROPERTIES_WithTokens ==
    {"$ai_input", "$ai_output_choices", "$ai_input_tokens"}

JSON_PARSE_PROPERTIES == {"$ai_input", "$ai_output_choices"}

MarkerKey == "$ai_ingestion_source"

Otel == Str(<<"o", "t", "e", "l">>)

\* ------------------------------------------------------- mapOtelAttributes

\* the guard as a truthiness test of the marker instead of === 'otel'
NotEligibleUnlessTruthy(ev) ==
    \/ ~ev.hasProperties
    \/ Get(ev.properties, MarkerKey) \in
         {Undefined, Null, Str(<<>>), Num(<<"0">>), Bool(<<"f", "a", "l", "s", "e">>)}

\* the guard of the early return: the rename pass runs only when it is FALSE
NotEligible(ev) ==
    \/ ~ev.hasProperties
    \/ Get(ev.properties, MarkerKey) # Otel

\* parseJSON(value) outside any try: its exception is thrown on
TryParseWithoutCatch(value) ==
    LET r == parseJSON(value.text)
    IN  IF r.threw THEN [threw |-> TRUE, value |-> value]
        ELSE [threw |-> FALSE, value |-> r.value]

\* try { value = parseJSON(value) } catch { }: the decoded value, or the
\* string itself when parseJSON throws; nothing is thrown on
TryParse(value) ==
    LET r == parseJSON(value.text)
    IN  IF r.threw THEN [threw |-> FALSE, value |-> value]
        ELSE [threw |-> FALSE, value |-> r.value]

\* the iteration with one of its statements changed:
\*   "keep-source"   the delete of the source key is left out
\*   "any-type"      parseJSON is tried whatever the type of the value
\*   "no-guard"      the !== undefined test is left out
\*   "keep-existing" the destination is written only when it holds nothing
MapEntryVariant(st, otelKey, phKey, variant) ==
    IF variant = "no-guard" \/ Get(st.properties, otelKey) # Undefined
    THEN LET value == Get(st.properties, otelKey)
             decode == /\ phKey \in JSON_PARSE_PROPERTIES
                       /\ (variant = "any-type" \/ TypeOf(value) = "string")
             r == IF decode THEN TryParse(value)
                  ELSE [threw |-> FALSE, value |-> value]
             parsed == IF decode THEN Append(st.parsed, value) ELSE st.parsed
             written == IF variant = "keep-existing"
                           /\ Get(st.properties, phKey) # Undefined
                        THEN st.properties
                        ELSE Put(st.properties, phKey, r.value)
         IN  [properties |-> IF variant = "keep-source" THEN written
                             ELSE Delete(written, otelKey),
              parsed |-> parsed,
              threw |-> FALSE]
    ELSE st

MapEntryKeepSource(st, otelKey, phKey) ==
    MapEntryVariant(st, otelKey, phKey, "keep-source")

MapEntryAnyType(st, otelKey, phKey) ==
    MapEntryVariant(st, otelKey, phKey, "any-type")

MapEntryNoGuard(st, otelKey, phKey) ==
    MapEntryVariant(st, otelKey, phKey, "no-guard")

MapEntryKeepExisting(st, otelKey, phKey) ==
    MapEntryVariant(st, otelKey, phKey, "keep-existing")

\* one iteration of the loop, for the entry (otelKey, phKey), on
\* st = [properties, parsed, threw]: parsed lists the values handed to
\* parseJSON so far, threw says an exception left the iteration
MapEntry(st, otelKey, phKey) ==
    IF Get(st.properties, otelKey) # Undefined
    THEN LET value == Get(st.properties, otelKey)
             decode == phKey \in JSON_PARSE_PROPERTIES /\ TypeOf(value) = "string"
             r == IF decode THEN TryParse(value)
                  ELSE [threw |-> FALSE, value |-> value]
             parsed == IF decode THEN Append(st.parsed, value) ELSE st.parsed
         IN  IF r.threw
             THEN [properties |-> st.properties, parsed |-> parsed, threw |-> TRUE]
             ELSE [properties |-> Delete(Put(st.properties, phKey, r.value), otelKey),
                   parsed |-> parsed,
                   threw |-> FALSE]
    ELSE st

RECURSIVE MapEntries(_, _)
\* the for loop from entry i on; an exception ends it
MapEntries(st, i) ==
    IF i > Len(ATTRIBUTE_MAP) \/ st.threw THEN st
    ELSE MapEntries(MapEntry(st, ATTRIBUTE_MAP[i][1], ATTRIBUTE_MAP[i][2]), i + 1)

\* mapOtelAttributes returning a mapped copy ({ ...event, properties }) of
\* an eligible event instead of the event
mapOtelAttributesCopy(h, ref) ==
    IF NotEligible(h[ref])
    THEN [heap |-> h, outcome |-> "return", ref |-> ref, parsed |-> <<>>]
    ELSE LET st == MapEntries([properties |-> h[ref].properties,
                               parsed |-> <<>>,
                               threw |-> FALSE], 1)
             copy == [h[ref] EXCEPT !.properties = st.properties]
         IN  [heap |-> [r \in (DOMAIN h) \cup {"copy"} |->
                          IF r = "copy" THEN copy ELSE h[r]],
              outcome |-> "return",
              ref |-> "copy",
              parsed |-> st.parsed]

\* mapOtelAttributes(event) on the object heap h, event being the reference
\* ref: the heap afterwards, how the call ended ("return" or "throw"), the
\* reference returned and the values handed to parseJSON
mapOtelAttributes(h, ref) ==
    IF NotEligible(h[ref])
    THEN [heap |-> h, outcome |-> "return", ref |-> ref, parsed |-> <<>>]
    ELSE LET st == MapEntries([properties |-> h[ref].properties,
                               parsed |-> <<>>,
                               threw |-> FALSE], 1)
         IN  [heap |-> [h EXCEPT ![ref].properties = st.properties],
              outcome |-> IF st.threw THEN "throw" ELSE "return",
              ref |-> ref,
              parsed |-> st.parsed]

\* ------------------------------------------------------------------ inputs

\* at most MaxProps properties besides the ingestion-source marker
MaxProps == 2

\* at most MaxCalls successive calls on the event
MaxCalls == 2

\* the six renames: (source key, destination key)
RenamePairs ==
    { <<"gen_ai.input.messages", "$ai_input">>,
      <<"gen_ai.output.messages", "$ai_output_choices">>,
      <<"gen_ai.usage.input_tokens", "$ai_input_tokens">>,
      <<"gen_ai.usage.output_tokens", "$ai_output_tokens">>,
      <<"gen_ai.request.model", "$ai_model">>,
      <<"gen_ai.provider.name", "$ai_provider">> }

\* the destinations whose string values are decoded
DecodedDests == {"$ai_input", "$ai_output_choices"}

SourceKeys == {p[1] : p \in RenamePairs}

DestKeys == {p[2] : p \in RenamePairs}

DecodedSources == {p[1] : p \in {q \in RenamePairs : q[2] \in DecodedDests}}

CustomKey == "custom.attribute"

TestValue == Str(<<"t", "e", "s", "t", "-", "v", "a", "l", "u", "e">>)

EmptyString == Str(<<>>)

\* the string [{"role": "user"}]
MessagesJson ==
    Str(<<"[", "{", "\"", "r", "o", "l", "e", "\"", ":", " ",
          "\"", "u", "s", "e", "r", "\"", "}", "]">>)

\* the array [{role: "user"}]
Messages ==
    Arr(<<Obj(<<Str(<<"r", "o", "l", "e">>), Str(<<"u", "s", "e", "r">>)>>)>>)

\* the string 42
FortyTwoJson == Str(<<"4", "2">>)

FortyTwo == Num(<<"4", "2">>)

True == Bool(<<"t", "r", "u", "e">>)

OneMessage == Obj(<<Str(<<"r", "o", "l", "e">>), Str(<<"u", "s", "e", "r">>)>>)

Previous == Str(<<"p", "r", "e", "v", "i", "o", "u", "s">>)

CustomValue == Str(<<"c", "u", "s", "t", "o", "m">>)

\* the values the marker takes; Undefined stands for a bag without the key
MarkerValues ==
    {Undefined, Otel, Str(<<"s", "d", "k">>), EmptyString,
     Str(<<"O", "T", "E", "L">>), Num(<<"1">>)}

\* the values a key other than the marker takes in an input bag: every type
\* and both kinds of string for the two source keys whose values the code
\* inspects, fewer for the source keys it only tests against undefined
InputValues(k) ==
    IF k \in DecodedSources
    THEN {Undefined, Null, True, FortyTwo, Messages, OneMessage,
          TestValue, EmptyString, MessagesJson, FortyTwoJson}
    ELSE IF k \in SourceKeys
    THEN {Undefined, Null, FortyTwo, TestValue, FortyTwoJson}
    ELSE IF k \in DestKeys THEN {Previous}
    ELSE {CustomValue}

AllInputValues ==
    UNION {InputValues(k) : k \in SourceKeys \cup DestKeys \cup {CustomKey}}

\* the property bags over the keys K
BagsOver(K) ==
    {b \in [K -> AllInputValues] : \A k \in K : b[k] \in InputValues(k)}

InputBags ==
    UNION {BagsOver(K) :
             K \in {X \in SUBSET (SourceKeys \cup DestKeys \cup {CustomKey}) :
                      Cardinality(X) <= MaxProps}}

\* the fields of an event other than properties
BaseEvent ==
    [event |-> "$ai_generation", distinct_id |-> "user-123", team_id |-> 1,
     uuid |-> "test-uuid", timestamp |-> "t0", ip |-> "127.0.0.1",
     site_url |-> "https://app.posthog.com", now |-> "t0"]

\* an event whose properties field is the bag b
EventWith(b) ==
    [base |-> BaseEvent, hasProperties |-> TRUE, properties |-> b]

\* an event without a properties field
EventWithoutProperties ==
    [base |-> BaseEvent, hasProperties |-> FALSE, properties |-> EmptyBag]

InputEvents ==
    {EventWithoutProperties} \cup
    {EventWith(IF m = Undefined THEN b ELSE Put(b, MarkerKey, m)) :
       b \in InputBags, m \in MarkerValues}

\* ------------------------------------------------------------------- state

VARIABLES
    heap,       \* the objects: reference -> event
    arg,        \* the reference the caller holds and passes to the mapper
    pre,        \* the heap as it was when the latest call started
    result,     \* how the latest call ended and the reference it returned
    parsed,     \* the values the latest call handed to parseJSON
    calls,      \* the number of calls made
    inv,        \* statement-level runs of the mapper: name -> its locals
    tables,     \* the module-level objects ATTRIBUTE_MAP, JSON_PARSE_PROPERTIES
    todo,       \* the table entries a pass in free order has still to process
    ui,         \* the launch button: team, dialog and dispatched actions
    sidebar,    \* the survey sidebar: survey, active tab and dispatched exports
    filters,    \* the results filter bar and the question filters
    details     \* the details panel: survey and selected page index

vars == <<heap, arg, pre, result, parsed, calls, inv, tables, todo, ui, sidebar, filters,
         details>>

\* the variables of the other specifications, which Spec leaves alone
others == <<inv, tables, todo, ui, sidebar, filters, details>>

NoResult == [outcome |-> "none", ref |-> "none"]

\* the module-level objects as the module creates them
ModuleTables == [map |-> ATTRIBUTE_MAP, json |-> JSON_PARSE_PROPERTIES]

OthersIdle ==
    /\ inv = <<>>
    /\ tables = ModuleTables
    /\ todo = {}
    /\ ui = <<>>
    /\ sidebar = <<>>
    /\ filters = <<>>
    /\ details = <<>>

Init ==
    /\ \E ev \in InputEvents : heap = [r \in {"e1"} |-> ev]
    /\ arg = "e1"
    /\ pre = heap
    /\ result = NoResult
    /\ parsed = <<>>
    /\ calls = 0
    /\ OthersIdle

\* the pipeline calls mapOtelAttributes(event)
Call ==
    /\ calls < MaxCalls
    /\ LET r == mapOtelAttributes(heap, arg)
       IN  /\ heap' = r.heap
           /\ result' = [outcome |-> r.outcome, ref |-> r.ref]
           /\ parsed' = r.parsed
    /\ pre' = heap
    /\ calls' = calls + 1
    /\ arg' = arg
    /\ UNCHANGED others

Next == Call

Spec == Init /\ [][Next]_vars

\* ------------------------------------------------------------------ claims
\* Each claim compares the event after the latest call (heap[arg]) with the
\* event that call was given (pre[arg]).

PreBag == pre[arg].properties

PostBag == heap[arg].properties

\* the latest call was given an event whose marker is exactly "otel"
CalledOnOtel ==
    /\ calls > 0
    /\ pre[arg].hasProperties
    /\ Get(PreBag, MarkerKey) = Otel

\* the latest call was given an event without properties, or whose marker
\* is anything but "otel"
CalledOnOther ==
    /\ calls > 0
    /\ (~pre[arg].hasProperties \/ Get(PreBag, MarkerKey) # Otel)

IsString(v) == v.type = "string"

DecodableJson(v) == IsString(v) /\ ~parseJSON(v.text).threw

\* the value a destination is to receive from the source value v
MappedValue(dest, v) ==
    IF dest \in DecodedDests /\ DecodableJson(v) THEN parseJSON(v.text).value
    ELSE v

\* C1: an event without properties, or whose marker is not exactly "otel",
\* is left as it was: no property added, removed, renamed or changed.
C1_IneligibleUnchanged ==
    CalledOnOther => heap[arg] = pre[arg]

\* a call on an event marked "sdk" or "OTEL" that holds a source key
C1_Witness ==
    /\ CalledOnOther
    /\ Get(PreBag, MarkerKey) \in {Str(<<"s", "d", "k">>), Str(<<"O", "T", "E", "L">>)}
    /\ \E k \in SourceKeys : Get(PreBag, k) # Undefined
    /\ heap[arg] = pre[arg]

\* C2: for each of the six pairs, a string that is not decodable JSON held
\* by the source key of an otel event is moved to the destination key: the
\* destination holds that string and the source key reads undefined.
C2_PlainStringRenamed ==
    CalledOnOtel =>
        \A p \in RenamePairs :
            LET v == Get(PreBag, p[1])
            IN  (IsString(v) /\ ~DecodableJson(v)) =>
                    /\ Get(PostBag, p[2]) = v
                    /\ Get(PostBag, p[1]) = Undefined

\* "test-value" was renamed to $ai_input and to $ai_provider in one call
C2_Witness ==
    /\ CalledOnOtel
    /\ Get(PreBag, "gen_ai.input.messages") = TestValue
    /\ Get(PreBag, "gen_ai.provider.name") = TestValue
    /\ Get(PostBag, "$ai_input") = TestValue
    /\ Get(PostBag, "$ai_provider") = TestValue

\* C3 as stated: every source key that is a key of the bag of an otel event
\* is consumed, whatever value it held: afterwards it is no key of the bag
\* and its destination key is one.
C3_EveryKeyConsumed ==
    CalledOnOtel =>
        \A p \in RenamePairs :
            p[1] \in DOMAIN PreBag =>
                /\ p[1] \notin DOMAIN PostBag
                /\ p[2] \in DOMAIN PostBag

\* C3 amended: every source key whose value in the bag of an otel event is
\* not undefined is consumed: afterwards it is no key of the bag and its
\* destination key is one.
C3_DefinedKeyConsumed ==
    CalledOnOtel =>
        \A p \in RenamePairs :
            Get(PreBag, p[1]) # Undefined =>
                /\ p[1] \notin DOMAIN PostBag
                /\ p[2] \in DOMAIN PostBag

\* two source keys holding null and a number were consumed
C3_Witness ==
    /\ CalledOnOtel
    /\ Get(PreBag, "gen_ai.usage.input_tokens") = FortyTwo
    /\ Get(PreBag, "gen_ai.output.messages") = Null
    /\ DOMAIN PostBag = {MarkerKey, "$ai_input_tokens", "$ai_output_choices"}

\* C4: a string that is decodable JSON held by the source key of $ai_input
\* or $ai_output_choices of an otel event reaches the destination decoded,
\* not as the string; [{"role": "user"}] arrives as the array [{role: "user"}].
C4_JsonDecoded ==
    CalledOnOtel =>
        \A p \in {q \in RenamePairs : q[2] \in DecodedDests} :
            LET v == Get(PreBag, p[1])
            IN  /\ DecodableJson(v) =>
                    /\ Get(PostBag, p[2]) = parseJSON(v.text).value
                    /\ Get(PostBag, p[2]) # v
                /\ v = MessagesJson => Get(PostBag, p[2]) = Messages
                /\ v = FortyTwoJson => Get(PostBag, p[2]) = FortyTwo

\* both destinations received decoded values in one call
C4_Witness ==
    /\ CalledOnOtel
    /\ Get(PreBag, "gen_ai.input.messages") = MessagesJson
    /\ Get(PreBag, "gen_ai.output.messages") = FortyTwoJson
    /\ Get(PostBag, "$ai_input") = Messages
    /\ Get(PostBag, "$ai_output_choices") = FortyTwo

\* C5: a string that is not decodable JSON held by the source key of
\* $ai_input or $ai_output_choices of an otel event reaches the destination
\* unchanged, the source key is removed, the call returns, and every other
\* pair whose source key holds a value is processed in the same call.
C5_BadJsonKept ==
    CalledOnOtel =>
        \A p \in {q \in RenamePairs : q[2] \in DecodedDests} :
            LET v == Get(PreBag, p[1])
            IN  (IsString(v) /\ ~DecodableJson(v)) =>
                    /\ Get(PostBag, p[2]) = v
                    /\ p[1] \notin DOMAIN PostBag
                    /\ result.outcome = "return"
                    /\ \A o \in RenamePairs \ {p} :
                           Get(PreBag, o[1]) # Undefined =>
                               /\ o[1] \notin DOMAIN PostBag
                               /\ Get(PostBag, o[2]) = MappedValue(o[2], Get(PreBag, o[1]))

\* the empty string was kept for $ai_input and the pair after it in the
\* table was processed and decoded
C5_Witness ==
    /\ CalledOnOtel
    /\ Get(PreBag, "gen_ai.input.messages") = EmptyString
    /\ Get(PreBag, "gen_ai.output.messages") = MessagesJson
    /\ DOMAIN PostBag = {MarkerKey, "$ai_input", "$ai_output_choices"}
    /\ Get(PostBag, "$ai_input") = EmptyString
    /\ Get(PostBag, "$ai_output_choices") = Messages
    /\ result.outcome = "return"

\* C6: an array, object, number, boolean or null held by the source key of
\* $ai_input or $ai_output_choices of an otel event is not handed to
\* parseJSON and reaches the destination as it is.
C6_NonStringPassedThrough ==
    CalledOnOtel =>
        \A p \in {q \in RenamePairs : q[2] \in DecodedDests} :
            LET v == Get(PreBag, p[1])
            IN  v.type \in {"array", "object", "number", "boolean", "null"} =>
                    /\ Get(PostBag, p[2]) = v
                    /\ \A i \in 1..Len(parsed) : parsed[i] # v

\* an already decoded array reached $ai_input while the string next to it
\* was decoded
C6_Witness ==
    /\ CalledOnOtel
    /\ Get(PreBag, "gen_ai.input.messages") = Messages
    /\ Get(PreBag, "gen_ai.output.messages") = MessagesJson
    /\ Get(PostBag, "$ai_input") = Messages
    /\ parsed = <<MessagesJson>>

\* C7: in an otel event every key that is neither a source key nor the
\* destination of a source key holding a value keeps its presence and its
\* value: custom attributes, destinations whose source is absent, and the
\* marker, which is still "otel".
C7_OthersPreserved ==
    CalledOnOtel =>
        /\ \A k \in (DOMAIN PreBag) \cup (DOMAIN PostBag) :
               (/\ k \notin SourceKeys
                /\ \A p \in RenamePairs :
                       p[2] = k => Get(PreBag, p[1]) = Undefined)
               => /\ k \in DOMAIN PreBag
                  /\ k \in DOMAIN PostBag
                  /\ PostBag[k] = PreBag[k]
        /\ Get(PostBag, MarkerKey) = Otel

\* a custom attribute survived a call that renamed the model
C7_Witness ==
    /\ CalledOnOtel
    /\ Get(PreBag, CustomKey) = CustomValue
    /\ Get(PreBag, "gen_ai.request.model") = TestValue
    /\ Get(PostBag, CustomKey) = CustomValue
    /\ Get(PostBag, "$ai_model") = TestValue
    /\ Get(PostBag, MarkerKey) = Otel

\* C8: every call returns the reference it was passed.
C8_SameReference ==
    calls > 0 => (result.outcome = "return" /\ result.ref = arg)

\* a call that changed the event returned that event
C8_Witness ==
    /\ CalledOnOtel
    /\ heap[arg] # pre[arg]
    /\ result.ref = arg

\* C9: when a source key of an otel event holds a value and its destination
\* key is a key of the bag too, the destination holds the (possibly decoded)
\* source value afterwards, whatever it held before.
C9_ExistingOverwritten ==
    CalledOnOtel =>
        \A p \in RenamePairs :
            (Get(PreBag, p[1]) # Undefined /\ p[2] \in DOMAIN PreBag) =>
                Get(PostBag, p[2]) = MappedValue(p[2], Get(PreBag, p[1]))

\* a destination holding another value was overwritten by the decoded source
C9_Witness ==
    /\ CalledOnOtel
    /\ Get(PreBag, "$ai_input") = Previous
    /\ Get(PreBag, "gen_ai.input.messages") = MessagesJson
    /\ Get(PostBag, "$ai_input") = Messages

\* C10: a second call on the mapped event, its marker still "otel", changes
\* nothing: the bag after two calls is the bag after one.
C10_SecondCallNoOp ==
    (calls >= 2 /\ CalledOnOtel) => PostBag = PreBag

\* the second call on an event whose first call decoded a JSON string into
\* a string-free value and consumed two source keys
C10_Witness ==
    /\ calls = 2
    /\ CalledOnOtel
    /\ Get(PostBag, "$ai_input") = FortyTwo
    /\ Get(PostBag, "$ai_model") = FortyTwoJson
    /\ DOMAIN PostBag = {MarkerKey, "$ai_input", "$ai_model"}

\* C12: a string held by the source key of $ai_input_tokens,
\* $ai_output_tokens, $ai_model or $ai_provider of an otel event reaches
\* the destination verbatim, also when it is decodable JSON: the string 42
\* stays the string 42 and does not become the number 42.
C12_PlainDestVerbatim ==
    CalledOnOtel =>
        \A p \in {q \in RenamePairs : q[2] \notin DecodedDests} :
            LET v == Get(PreBag, p[1])
            IN  /\ IsString(v) => Get(PostBag, p[2]) = v
                /\ v = FortyTwoJson => Get(PostBag, p[2]) # FortyTwo

\* the string 42 reached $ai_input_tokens as a string in the call that
\* decoded the same string for $ai_input
C12_Witness ==
    /\ CalledOnOtel
    /\ Get(PreBag, "gen_ai.usage.input_tokens") = FortyTwoJson
    /\ Get(PreBag, "gen_ai.input.messages") = FortyTwoJson
    /\ Get(PostBag, "$ai_input_tokens") = FortyTwoJson
    /\ Get(PostBag, "$ai_input") = FortyTwo

\* ------------------------------------------- the mapper statement by statement
\* Two runs of mapOtelAttributes, A and B, each advancing one statement at a
\* time, on two events e1 and e2: A is given e1, B is given e1 or e2. The
\* module-level tables are part of the state the statements read.

Invocations == {"A", "B"}

\* the values of the properties of the events the runs are given
StepMarkers == {Otel, Str(<<"s", "d", "k">>)}

StepMessages == {Undefined, MessagesJson, TestValue}

StepProviders == {Undefined, FortyTwoJson}

StepInputs == {Undefined, Previous}

\* the bag b with k set to v, or b itself when v is undefined
With(b, k, v) == IF v = Undefined THEN b ELSE Put(b, k, v)

StepEvents ==
    {EventWith(With(With(With(Put(EmptyBag, MarkerKey, m),
                              "gen_ai.input.messages", x),
                         "gen_ai.provider.name", y),
                    "$ai_input", z)) :
       m \in StepMarkers, x \in StepMessages, y \in StepProviders, z \in StepInputs}

\* the strings a property of a StepEvents event can hold
StepStrings ==
    {v \in StepMarkers \cup StepMessages \cup StepProviders \cup StepInputs :
       v.type = "string"}

\* TryParse tabulated over StepStrings: (string, what TryParse makes of it)
TryParseTable == {<<v, TryParse(v)>> : v \in StepStrings}

\* TryParse(value), read from the table for the strings it holds
TryParseStep(value) ==
    IF \E p \in TryParseTable : p[1] = value
    THEN (CHOOSE p \in TryParseTable : p[1] = value)[2]
    ELSE TryParse(value)

\* the locals of a run that has been called with ref and has executed nothing
Fresh(ref) ==
    [ref |-> ref, pc |-> "guard", entries |-> <<>>, i |-> 0, value |-> Undefined,
     stale |-> FALSE, outcome |-> "none", ret |-> "none"]

InitSteps ==
    /\ \E ev1 \in StepEvents, ev2 \in StepEvents :
           heap = [r \in {"e1", "e2"} |-> IF r = "e1" THEN ev1 ELSE ev2]
    /\ \E r \in {"e1", "e2"} : inv = [n \in Invocations |-> Fresh(IF n = "A" THEN "e1" ELSE r)]
    /\ tables = ModuleTables
    /\ pre = heap
    /\ arg = "e1"
    /\ result = NoResult
    /\ parsed = <<>>
    /\ calls = 0
    /\ todo = {}
    /\ ui = <<>>
    /\ sidebar = <<>>
    /\ filters = <<>>
    /\ details = <<>>

\* the event parameter of run n, always e1
TargetFirst(n) == "e1"

\* the event parameter of run n
Target(n) == inv[n].ref

\* event[phKey] = value: the key is set on the event, not on its properties
AssignDestOnEvent(h, t, ref, phKey, value) ==
    [heap |-> [h EXCEPT ![ref].base = (phKey :> value) @@ h[ref].base],
     tables |-> t]

\* the assignment skipped when the value is undefined
AssignDestIfDefined(h, t, ref, phKey, value) ==
    [heap |-> IF value = Undefined THEN h
              ELSE [h EXCEPT ![ref].properties = Put(h[ref].properties, phKey, value)],
     tables |-> t]

\* event.properties[phKey] = value, on the heap h and the tables t
AssignDest(h, t, ref, phKey, value) ==
    [heap |-> [h EXCEPT ![ref].properties = Put(h[ref].properties, phKey, value)],
     tables |-> t]

\* delete ATTRIBUTE_MAP[otelKey]: the table loses the entry, the bag keeps it
DeleteSourceFromTable(h, t, ref, otelKey) ==
    [heap |-> h,
     tables |-> [t EXCEPT !.map = SelectSeq(t.map, LAMBDA e : e[1] # otelKey)]]

\* delete event.properties[otelKey], on the heap h and the tables t
DeleteSource(h, t, ref, otelKey) ==
    [heap |-> [h EXCEPT ![ref].properties = Delete(h[ref].properties, otelKey)],
     tables |-> t]

StepFrame == UNCHANGED <<arg, pre, result, parsed, calls, todo, ui, sidebar, filters, details>>

\* the early return, or the start of the loop over Object.entries(ATTRIBUTE_MAP)
GuardStep(n) ==
    /\ inv[n].pc = "guard"
    /\ inv' = [inv EXCEPT ![n] =
                 IF NotEligible(heap[Target(n)])
                 THEN [@ EXCEPT !.pc = "done", !.outcome = "return", !.ret = Target(n)]
                 ELSE [@ EXCEPT !.pc = "test", !.entries = tables.map, !.i = 1]]
    /\ UNCHANGED <<heap, tables>>
    /\ StepFrame

\* the loop head and if (event.properties[otelKey] !== undefined); after
\* the last entry, return event
TestStep(n) ==
    /\ inv[n].pc = "test"
    /\ inv' = [inv EXCEPT ![n] =
                 IF @.i > Len(@.entries)
                 THEN [@ EXCEPT !.pc = "done", !.outcome = "return", !.ret = Target(n)]
                 ELSE IF Get(heap[Target(n)].properties, @.entries[@.i][1]) # Undefined
                 THEN [@ EXCEPT !.pc = "read"]
                 ELSE [@ EXCEPT !.i = @ + 1]]
    /\ UNCHANGED <<heap, tables>>
    /\ StepFrame

\* let value = event.properties[otelKey]; stale records that the key held
\* nothing any more
ReadStep(n) ==
    /\ inv[n].pc = "read"
    /\ LET v == Get(heap[Target(n)].properties, inv[n].entries[inv[n].i][1])
       IN  inv' = [inv EXCEPT ![n] =
                     [@ EXCEPT !.pc = "decode", !.value = v,
                               !.stale = @ \/ v = Undefined]]
    /\ UNCHANGED <<heap, tables>>
    /\ StepFrame

\* if (JSON_PARSE_PROPERTIES.has(phKey) && typeof value === 'string') with
\* its try/catch
DecodeStep(n) ==
    /\ inv[n].pc = "decode"
    /\ LET phKey == inv[n].entries[inv[n].i][2]
           decode == phKey \in tables.json /\ TypeOf(inv[n].value) = "string"
           r == IF decode THEN TryParseStep(inv[n].value)
                ELSE [threw |-> FALSE, value |-> inv[n].value]
       IN  inv' = [inv EXCEPT ![n] =
                     IF r.threw THEN [@ EXCEPT !.pc = "done", !.outcome = "throw"]
                     ELSE [@ EXCEPT !.pc = "write", !.value = r.value]]
    /\ UNCHANGED <<heap, tables>>
    /\ StepFrame

\* event.properties[phKey] = value
WriteStep(n) ==
    /\ inv[n].pc = "write"
    /\ LET e == AssignDest(heap, tables, Target(n),
                           inv[n].entries[inv[n].i][2], inv[n].value)
       IN  heap' = e.heap /\ tables' = e.tables
    /\ inv' = [inv EXCEPT ![n].pc = "delete"]
    /\ StepFrame

\* delete event.properties[otelKey], then on to the next entry
DeleteStep(n) ==
    /\ inv[n].pc = "delete"
    /\ LET e == DeleteSource(heap, tables, Target(n), inv[n].entries[inv[n].i][1])
       IN  heap' = e.heap /\ tables' = e.tables
    /\ inv' = [inv EXCEPT ![n].pc = "test", ![n].i = @ + 1]
    /\ StepFrame

NextSteps ==
    \E n \in Invocations :
        \/ GuardStep(n)
        \/ TestStep(n)
        \/ ReadStep(n)
        \/ DecodeStep(n)
        \/ WriteStep(n)
        \/ DeleteStep(n)

SpecSteps == InitSteps /\ [][NextSteps]_vars

\* the events B is given in the runs checked for termination
RunEvents ==
    {ev \in StepEvents :
       /\ Get(ev.properties, "gen_ai.input.messages") = TestValue
       /\ Get(ev.properties, "gen_ai.provider.name") = Undefined
       /\ Get(ev.properties, "$ai_input") = Undefined}

\* as InitSteps, with e2 among RunEvents
InitRuns ==
    /\ InitSteps
    /\ heap["e2"] \in RunEvents

\* a called function runs its statements to the end
SpecRuns == InitRuns /\ [][NextSteps]_vars /\ WF_vars(NextSteps)

\* --------------------------------------------- claims about the statements

AllDone == \A n \in Invocations : inv[n].pc = "done"

Distinct == inv["A"].ref # inv["B"].ref

\* the event r as one call of the mapper, run alone on the events as they
\* were given, leaves it
Alone(r) == mapOtelAttributes(pre, r).heap[r]

\* C11: every call comes to its end, and ends by returning the event it was
\* given, after the guard alone or after one pass over the six entries; no
\* call ends in an error.
C11_TerminatesByReturn ==
    /\ <>AllDone
    /\ [](\A n \in Invocations :
            inv[n].pc = "done" =>
                /\ inv[n].outcome = "return"
                /\ inv[n].ret = inv[n].ref
                /\ inv[n].i \in {0, Len(ModuleTables.map) + 1})

\* both calls have returned, one of them after undecodable JSON went
\* through the try/catch
C11_Witness ==
    /\ AllDone
    /\ Distinct
    /\ Get(pre["e1"].properties, MarkerKey) = Otel
    /\ Get(pre["e1"].properties, "gen_ai.input.messages") = TestValue
    /\ Get(pre["e2"].properties, MarkerKey) # Otel
    /\ inv["A"].outcome = "return" /\ inv["A"].i = 7
    /\ inv["B"].outcome = "return" /\ inv["B"].i = 0

\* C13: when the two runs are given distinct events, each event is, once
\* its run is done, exactly as a call run alone leaves it, however the
\* statements of the two runs were interleaved.
C13_DistinctEventsIndependent ==
    Distinct =>
        \A n \in Invocations :
            inv[n].pc = "done" => heap[inv[n].ref] = Alone(inv[n].ref)

\* B finished mapping e2 while A was between its write and its delete of
\* the same key on e1
C13_Witness ==
    /\ Distinct
    /\ inv["B"].pc = "done"
    /\ inv["A"].pc = "delete" /\ inv["A"].i = 1
    /\ Get(pre["e2"].properties, "gen_ai.input.messages") = MessagesJson
    /\ Get(heap["e2"].properties, "$ai_input") = Messages
    /\ Get(pre["e1"].properties, "gen_ai.input.messages") = TestValue
    /\ "gen_ai.input.messages" \in DOMAIN heap["e1"].properties

\* C14: a call changes nothing but the properties mapping of the event it
\* was given: the other fields of every event stay as they were, no event
\* gains or loses its properties field, no event appears or disappears, and
\* an event that no started call was given is as it was.
C14_OnlyPropertiesOfArgument ==
    /\ DOMAIN heap = DOMAIN pre
    /\ \A r \in DOMAIN pre :
           /\ heap[r].base = pre[r].base
           /\ heap[r].hasProperties = pre[r].hasProperties
           /\ (\A n \in Invocations : inv[n].ref = r => inv[n].pc = "guard")
              => heap[r] = pre[r]

\* both runs mapped e1 and e2 still holds its source key
C14_Witness ==
    /\ AllDone
    /\ ~Distinct
    /\ heap["e1"].properties # pre["e1"].properties
    /\ heap["e1"].base = BaseEvent
    /\ Get(pre["e2"].properties, MarkerKey) = Otel
    /\ Get(heap["e2"].properties, "gen_ai.provider.name") = FortyTwoJson
    /\ heap["e2"] = pre["e2"]

\* C16: two runs on one event are not safe: once both are done, the event
\* differs from what one call alone leaves exactly when one run read a
\* source key after the other had deleted it (the key passed the run's
\* !== undefined test and then read undefined).
C16_SharedEventDiverges ==
    (~Distinct /\ AllDone) =>
        ((\E n \in Invocations : inv[n].stale) <=> heap["e1"] # Alone("e1"))

\* two runs on one event ended with $ai_input holding undefined where one
\* call alone leaves the decoded messages
C16_Witness ==
    /\ ~Distinct
    /\ AllDone
    /\ Get(pre["e1"].properties, "gen_ai.input.messages") = MessagesJson
    /\ "$ai_input" \in DOMAIN heap["e1"].properties
    /\ heap["e1"].properties["$ai_input"] = Undefined
    /\ Get(Alone("e1").properties, "$ai_input") = Messages

\* C17: whatever calls run and however far they are, ATTRIBUTE_MAP still
\* holds its six entries and JSON_PARSE_PROPERTIES still holds $ai_input and
\* $ai_output_choices, and every run past the guard iterates those six
\* entries.
C17_TablesUnchanged ==
    /\ tables.map = << <<"gen_ai.input.messages", "$ai_input">>,
                       <<"gen_ai.output.messages", "$ai_output_choices">>,
                       <<"gen_ai.usage.input_tokens", "$ai_input_tokens">>,
                       <<"gen_ai.usage.output_tokens", "$ai_output_tokens">>,
                       <<"gen_ai.request.model", "$ai_model">>,
                       <<"gen_ai.provider.name", "$ai_provider">> >>
    /\ tables.json = {"$ai_input", "$ai_output_choices"}
    /\ \A n \in Invocations :
           inv[n].i > 0 => {inv[n].entries[j] : j \in 1..Len(inv[n].entries)} = RenamePairs

\* B was called after A had mapped two keys of the same event and returned
C17_Witness ==
    /\ ~Distinct
    /\ inv["A"].pc = "done"
    /\ inv["B"].pc = "test" /\ inv["B"].i = 3
    /\ DOMAIN heap["e1"].properties = {MarkerKey, "$ai_input", "$ai_provider"}
    /\ DOMAIN pre["e1"].properties = {MarkerKey, "gen_ai.input.messages", "gen_ai.provider.name"}
    /\ tables = ModuleTables

\* ------------------------------------------------ the pass in any order
\* mapOtelAttributes with the entries of the table taken in an arbitrary
\* order: todo holds the indexes of the entries still to process.

InitOrder ==
    /\ \E ev \in InputEvents :
           /\ heap = [r \in {"e1"} |-> ev]
           /\ todo = IF NotEligible(ev) THEN {} ELSE 1..Len(ATTRIBUTE_MAP)
    /\ arg = "e1"
    /\ pre = heap
    /\ result = NoResult
    /\ parsed = <<>>
    /\ calls = 0
    /\ inv = <<>>
    /\ tables = ModuleTables
    /\ ui = <<>>
    /\ sidebar = <<>>
    /\ filters = <<>>
    /\ details = <<>>

\* the loop body for one of the entries still to process
ProcessEntry ==
    /\ \E i \in todo :
           LET st == MapEntry([properties |-> heap[arg].properties,
                               parsed |-> <<>>,
                               threw |-> FALSE],
                              ATTRIBUTE_MAP[i][1], ATTRIBUTE_MAP[i][2])
           IN  /\ ~st.threw
               /\ heap' = [heap EXCEPT ![arg].properties = st.properties]
               /\ todo' = todo \ {i}
    /\ UNCHANGED <<arg, pre, result, parsed, calls, inv, tables, ui, sidebar, filters, details>>

NextOrder == ProcessEntry

SpecOrder == InitOrder /\ [][NextOrder]_vars

\* C15: whichever order the six entries are processed in, the bag ends as
\* the pass in table order leaves it; the source keys of the table are
\* pairwise distinct, so are its destination keys, and no destination key
\* is a source key.
C15_OrderIndependent ==
    /\ todo = {} => heap[arg] = mapOtelAttributes(pre, arg).heap[arg]
    /\ LET idx == 1..Len(ATTRIBUTE_MAP)
       IN  /\ \A i, j \in idx :
                 i # j => /\ ATTRIBUTE_MAP[i][1] # ATTRIBUTE_MAP[j][1]
                          /\ ATTRIBUTE_MAP[i][2] # ATTRIBUTE_MAP[j][2]
           /\ \A i, j \in idx : ATTRIBUTE_MAP[i][2] # ATTRIBUTE_MAP[j][1]

\* the provider name was renamed before the input messages were decoded:
\* the reverse of the table order
C15_Witness ==
    /\ todo = (1..6) \ {6}
    /\ Get(pre[arg].properties, "gen_ai.input.messages") = MessagesJson
    /\ Get(pre[arg].properties, "gen_ai.provider.name") = TestValue
    /\ Get(heap[arg].properties, "$ai_provider") = TestValue
    /\ Get(heap[arg].properties, "gen_ai.input.messages") = MessagesJson

\* ------------------------------------------------------ LaunchSurveyButton
\* ui is a record:
\*   optIn    currentTeam?.surveys_opt_in: "true", "false", "unset", or
\*            "noteam" when there is no current team
\*   pending  the updateCurrentTeam requests dispatched and not yet answered
\*   dialog   the LemonDialog that is open: "none", "enable" ('Enable
\*            surveys?') or "launch" ('Launch this survey?')
\*   seen     surveys_opt_in as the latest click on the launch button found it
\*   start    the number of actions dispatched before that click
\*   click    the button clicked last
\*   log      the actions dispatched to the logics, each with the button that
\*            dispatched it and surveys_opt_in at that moment
\* A dialog is modal and closes when one of its buttons is clicked.

\* at most MaxDispatched actions are dispatched
MaxDispatched == 3

OptInValues == {"true", "false", "unset", "noteam"}

\* !currentTeam?.surveys_opt_in
NotOptedIn(optIn) == optIn # "true"

InitUi ==
    /\ \E o \in OptInValues :
           ui = [optIn |-> o, pending |-> 0, dialog |-> "none", seen |-> "none",
                 start |-> 0, click |-> "none", log |-> <<>>]
    /\ heap = <<>>
    /\ arg = "none"
    /\ pre = <<>>
    /\ result = NoResult
    /\ parsed = <<>>
    /\ calls = 0
    /\ inv = <<>>
    /\ tables = ModuleTables
    /\ todo = {}
    /\ sidebar = <<>>
    /\ filters = <<>>
    /\ details = <<>>

UiFrame ==
    UNCHANGED <<heap, arg, pre, result, parsed, calls, inv, tables, todo, sidebar, filters,
                details>>

\* the action a dispatched by button, as the log records it
Dispatched(a, button) == [action |-> a, button |-> button, optIn |-> ui.optIn]

\* the launch button launching at once when surveys are enabled
LaunchButtonEffectNoConfirm(u) ==
    IF NotOptedIn(u.optIn)
    THEN [u EXCEPT !.dialog = "enable", !.seen = u.optIn, !.start = Len(u.log),
                   !.click = "launch-button"]
    ELSE [u EXCEPT !.seen = u.optIn, !.start = Len(u.log),
                   !.click = "launch-button",
                   !.log = Append(@, [action |-> "launchSurvey",
                                      button |-> "launch-button",
                                      optIn |-> u.optIn])]

\* onClick of the launch button: the dialog it opens
LaunchButtonEffect(u) ==
    [u EXCEPT !.dialog = IF NotOptedIn(u.optIn) THEN "enable" ELSE "launch",
              !.seen = u.optIn, !.start = Len(u.log), !.click = "launch-button"]

\* 'Enable & continue' opening the launch confirmation without dispatching
\* updateCurrentTeam
EnableEffectNoUpdate(u) ==
    [u EXCEPT !.dialog = "launch", !.click = "enable-continue"]

\* onClick of 'Enable & continue': updateCurrentTeam({ surveys_opt_in: true })
\* is dispatched, then showLaunchConfirmation() opens its dialog
EnableEffect(u) ==
    [u EXCEPT !.log = Append(@, [action |-> "updateCurrentTeam",
                                 button |-> "enable-continue",
                                 optIn |-> u.optIn]),
              !.pending = @ + 1,
              !.dialog = "launch",
              !.click = "enable-continue"]

\* the user clicks the launch button
ClickLaunchButton ==
    /\ ui.dialog = "none"
    /\ Len(ui.log) < MaxDispatched
    /\ ui' = LaunchButtonEffect(ui)
    /\ UiFrame

\* the user clicks 'Enable & continue' in the 'Enable surveys?' dialog
ClickEnableAndContinue ==
    /\ ui.dialog = "enable"
    /\ ui' = EnableEffect(ui)
    /\ UiFrame

\* the user clicks 'Cancel' in the 'Enable surveys?' dialog
ClickEnableCancel ==
    /\ ui.dialog = "enable"
    /\ ui' = [ui EXCEPT !.dialog = "none", !.click = "enable-cancel"]
    /\ UiFrame

\* the user clicks 'Launch' in the 'Launch this survey?' dialog
ClickConfirmLaunch ==
    /\ ui.dialog = "launch"
    /\ ui' = [ui EXCEPT !.log = Append(@, Dispatched("launchSurvey", "confirm-launch")),
                        !.dialog = "none",
                        !.click = "confirm-launch"]
    /\ UiFrame

\* the user clicks 'Cancel' in the 'Launch this survey?' dialog
ClickConfirmCancel ==
    /\ ui.dialog = "launch"
    /\ ui' = [ui EXCEPT !.dialog = "none", !.click = "confirm-cancel"]
    /\ UiFrame

\* the answer to an updateCurrentTeam request arrives: the team now has
\* surveys_opt_in true
UpdateTeamSucceeds ==
    /\ ui.pending > 0
    /\ ui' = [ui EXCEPT !.pending = @ - 1, !.optIn = "true"]
    /\ UiFrame

\* an updateCurrentTeam request fails: the team stays as it was
UpdateTeamFails ==
    /\ ui.pending > 0
    /\ ui' = [ui EXCEPT !.pending = @ - 1]
    /\ UiFrame

NextUi ==
    \/ ClickLaunchButton
    \/ ClickEnableAndContinue
    \/ ClickEnableCancel
    \/ ClickConfirmLaunch
    \/ ClickConfirmCancel
    \/ UpdateTeamSucceeds
    \/ UpdateTeamFails

SpecUi == InitUi /\ [][NextUi]_vars

\* the actions dispatched since the latest click on the launch button
Flow == SubSeq(ui.log, ui.start + 1, Len(ui.log))

\* C18: launchSurvey is dispatched only by the 'Launch' button of the
\* 'Launch this survey?' dialog: every launchSurvey in the log came from
\* that button, and one was dispatched per click on it.
C18_LaunchOnlyAfterConfirm ==
    /\ \A k \in 1..Len(ui.log) :
           ui.log[k].action = "launchSurvey" => ui.log[k].button = "confirm-launch"
    /\ ui.click \in {"launch-button", "enable-continue", "enable-cancel", "confirm-cancel"}
          => \A k \in (ui.start + 1)..Len(ui.log) : ui.log[k].action # "launchSurvey"

\* a launch confirmed in the dialog, after an earlier flow was cancelled
C18_Witness ==
    /\ ui.click = "confirm-launch"
    /\ ui.seen = "true"
    /\ ui.dialog = "none"
    /\ Len(ui.log) = 2
    /\ ui.log[1].action = "updateCurrentTeam"
    /\ ui.log[2].action = "launchSurvey"
    /\ ui.start = 1

\* C19: a click on the launch button that finds surveys_opt_in false or
\* unset opens 'Enable surveys?' and not the launch confirmation; in the
\* flow it starts the launch confirmation is open, and launchSurvey is
\* dispatched, only after updateCurrentTeam was; 'Cancel' in 'Enable
\* surveys?' ends the flow with nothing dispatched.
C19_EnableBeforeLaunch ==
    /\ ui.click = "launch-button" =>
           ui.dialog = (IF ui.seen = "true" THEN "launch" ELSE "enable")
    /\ (ui.seen \in {"false", "unset", "noteam"}) =>
           /\ ui.dialog = "launch" =>
                  (Len(Flow) >= 1 /\ Flow[1].action = "updateCurrentTeam")
           /\ \A k \in 1..Len(Flow) :
                  Flow[k].action = "launchSurvey" =>
                      (k > 1 /\ Flow[1].action = "updateCurrentTeam")
    /\ ui.click = "enable-cancel" => (Flow = <<>> /\ ui.dialog = "none")

\* surveys were unset: the flow dispatched updateCurrentTeam, then
\* launchSurvey
C19_Witness ==
    /\ ui.seen = "unset"
    /\ ui.click = "confirm-launch"
    /\ Len(Flow) = 2
    /\ Flow[1].action = "updateCurrentTeam"
    /\ Flow[2].action = "launchSurvey"

\* C20 as stated: whenever launchSurvey is dispatched, surveys_opt_in of the
\* current team is true.
C20_LaunchOnlyWhenOptedIn ==
    \A k \in 1..Len(ui.log) :
        ui.log[k].action = "launchSurvey" => ui.log[k].optIn = "true"

\* ------------------------------------------------------------ SurveySidebar
\* sidebar is a record:
\*   started    survey.start_date is set
\*   name       survey.name
\*   query      dataTableQuery: "absent" or a query
\*   activeTab  the state of SidebarContainer: a tab key or "null"
\*   clicked    the tab button clicked last, "none" before the first click
\*   before     activeTab as that click found it
\*   exports    the startExport actions dispatched, each with the format
\*              chosen and survey.name and dataTableQuery at that moment

\* at most MaxExports exports are started
MaxExports == 1

\* the mapper's variables and the launch button, at rest
MapperIdle ==
    /\ heap = <<>>
    /\ arg = "none"
    /\ pre = <<>>
    /\ result = NoResult
    /\ parsed = <<>>
    /\ calls = 0
    /\ inv = <<>>
    /\ tables = ModuleTables
    /\ todo = {}
    /\ ui = <<>>

SurveyNames == {<<"n", "p", "s">>, <<"c", "s", "a", "t">>}

Queries == {"responses-all", "responses-filtered"}

ExporterFormats == {"text/csv", "application/vnd.openxmlformats-officedocument.spreadsheetml.sheet"}

\* const isDraft = !survey.start_date
isDraft(started) == ~started

\* the tabs SurveySidebar hands to SidebarContainer
SidebarTabs(started) ==
    <<"details", "notifications">> \o (IF ~isDraft(started) THEN <<"export">> ELSE <<>>)

\* defaultTab ?? tabs[0]?.key ?? null
DefaultTab(tabs, defaultTab) ==
    IF defaultTab # "undefined" THEN defaultTab
    ELSE IF Len(tabs) > 0 THEN tabs[1] ELSE "null"

\* a click that selects the tab without ever collapsing the sidebar
ToggleTabNoCollapse(activeTab, key) == key

\* setActiveTab(activeTab === tab.key ? null : tab.key)
ToggleTab(activeTab, key) == IF activeTab = key THEN "null" ELSE key

\* tabs.find((tab) => tab.key === activeTab)?.content, "undefined" when no
\* tab has the key; null when activeTab is null
activeTabContent(tabs, activeTab) ==
    IF activeTab = "null" THEN "null"
    ELSE IF \E k \in 1..Len(tabs) : tabs[k] = activeTab THEN activeTab
    ELSE "undefined"

\* const isExpanded = activeTab !== null
isExpanded(activeTab) == activeTab # "null"

\* the tab buttons drawn active: active={activeTab === tab.key}
ActiveButtons(tabs, activeTab) == {k \in 1..Len(tabs) : activeTab = tabs[k]}

FilenamePrefix == <<"s", "u", "r", "v", "e", "y", "-">>

FilenameSuffix == <<"-", "r", "e", "s", "p", "o", "n", "s", "e", "s">>

\* an export named after the survey alone
handleExportNameOnly(format, query, name) ==
    IF query = "absent" THEN <<>>
    ELSE <<[export_format |-> format, source |-> query, filename |-> name]>>

\* handleExport: the startExport actions it dispatches
handleExport(format, query, name) ==
    IF query = "absent" THEN <<>>
    ELSE <<[export_format |-> format,
            source |-> query,
            filename |-> FilenamePrefix \o name \o FilenameSuffix]>>

InitSidebar ==
    /\ \E st \in BOOLEAN, nm \in SurveyNames, q \in Queries \cup {"absent"} :
           sidebar = [started |-> st, name |-> nm, query |-> q,
                      activeTab |-> DefaultTab(SidebarTabs(st), "details"),
                      clicked |-> "none", before |-> "none", exports |-> <<>>]
    /\ MapperIdle
    /\ filters = <<>>
    /\ details = <<>>

SidebarFrame ==
    UNCHANGED <<heap, arg, pre, result, parsed, calls, inv, tables, todo, ui, filters, details>>

\* the user clicks the button of one of the tabs offered
ClickTab ==
    \E k \in 1..Len(SidebarTabs(sidebar.started)) :
        LET key == SidebarTabs(sidebar.started)[k] IN
        /\ sidebar' = [sidebar EXCEPT !.activeTab = ToggleTab(sidebar.activeTab, key),
                                      !.clicked = key,
                                      !.before = sidebar.activeTab]
        /\ SidebarFrame

\* the exports a click on an export button adds to the log
Exported(format, from) ==
    LET sent == handleExport(format, sidebar.query, sidebar.name) IN
    [k \in 1..Len(sent) |->
        [payload |-> sent[k], format |-> format, query |-> sidebar.query,
         name |-> sidebar.name, from |-> from]]

\* the user picks a format in the menu of ExportPanel, which is drawn while
\* the export tab is the active tab and dataTableQuery is present
ClickExportPanel ==
    /\ activeTabContent(SidebarTabs(sidebar.started), sidebar.activeTab) = "export"
    /\ sidebar.query # "absent"
    /\ Len(sidebar.exports) < MaxExports
    /\ \E format \in ExporterFormats :
           sidebar' = [sidebar EXCEPT !.exports = @ \o Exported(format, "ExportPanel")]
    /\ SidebarFrame

\* the user clicks one of the two buttons of SurveyExportContent, which are
\* drawn while dataTableQuery is present
ClickExportContent ==
    /\ sidebar.query # "absent"
    /\ Len(sidebar.exports) < MaxExports
    /\ \E format \in ExporterFormats :
           sidebar' = [sidebar EXCEPT !.exports = @ \o Exported(format, "SurveyExportContent")]
    /\ SidebarFrame

\* surveyLogic hands the component another survey or another dataTableQuery:
\* the survey was launched, reloaded or replaced, or the query rebuilt
SurveyValuesChange ==
    /\ \E st \in BOOLEAN, nm \in SurveyNames, q \in Queries \cup {"absent"} :
           /\ <<st, nm, q>> # <<sidebar.started, sidebar.name, sidebar.query>>
           /\ sidebar' = [sidebar EXCEPT !.started = st, !.name = nm, !.query = q]
    /\ SidebarFrame

NextSidebar ==
    \/ ClickTab
    \/ ClickExportPanel
    \/ ClickExportContent
    \/ SurveyValuesChange

SpecSidebar == InitSidebar /\ [][NextSidebar]_vars

\* C21: the sidebar starts on 'details'; a click on the active tab's button
\* leaves no tab active and a click on another button makes that tab the
\* active one; at most one button is drawn active, and the content of a tab
\* is rendered exactly when a button is.
C21_OneTabToggles ==
    LET tabs == SidebarTabs(sidebar.started) IN
    /\ sidebar.clicked = "none" => sidebar.activeTab = "details"
    /\ (sidebar.clicked # "none" /\ sidebar.before = sidebar.clicked)
           => sidebar.activeTab = "null"
    /\ (sidebar.clicked # "none" /\ sidebar.before # sidebar.clicked)
           => sidebar.activeTab = sidebar.clicked
    /\ Cardinality(ActiveButtons(tabs, sidebar.activeTab)) <= 1
    /\ (activeTabContent(tabs, sidebar.activeTab) \in {"details", "notifications", "export"})
           <=> (ActiveButtons(tabs, sidebar.activeTab) # {})

\* the active tab was clicked: the sidebar is collapsed
C21_Witness ==
    /\ sidebar.clicked = "notifications"
    /\ sidebar.before = "notifications"
    /\ sidebar.activeTab = "null"
    /\ ~isExpanded(sidebar.activeTab)

\* C22 as stated: an expanded sidebar shows one of the tabs offered, and the
\* export tab is active only while the survey has a start_date.
C22_ActiveTabOffered ==
    LET tabs == SidebarTabs(sidebar.started) IN
    /\ isExpanded(sidebar.activeTab)
           => activeTabContent(tabs, sidebar.activeTab) = sidebar.activeTab
    /\ sidebar.activeTab = "export" => sidebar.started

\* C23: every startExport dispatched found dataTableQuery present and
\* carries the format chosen, that dataTableQuery as its source and the
\* filename survey-<survey name>-responses.
C23_ExportCarriesQuery ==
    \A k \in 1..Len(sidebar.exports) :
        LET e == sidebar.exports[k] IN
        /\ e.query # "absent"
        /\ e.payload.export_format = e.format
        /\ e.payload.source = e.query
        /\ Len(e.payload.filename) = Len(e.name) + 17
        /\ SubSeq(e.payload.filename, 1, 7) = <<"s", "u", "r", "v", "e", "y", "-">>
        /\ SubSeq(e.payload.filename, 8, 7 + Len(e.name)) = e.name
        /\ SubSeq(e.payload.filename, 8 + Len(e.name), Len(e.payload.filename))
               = <<"-", "r", "e", "s", "p", "o", "n", "s", "e", "s">>

\* an export from the panel of the export tab, after the query was rebuilt
C23_Witness ==
    /\ Len(sidebar.exports) = 1
    /\ sidebar.exports[1].from = "ExportPanel"
    /\ sidebar.exports[1].query = "responses-filtered"
    /\ sidebar.exports[1].name = <<"c", "s", "a", "t">>
    /\ sidebar.exports[1].format = "text/csv"

\* ------------------------------------------------------------ SurveyFilters
\* filters is a record:
\*   answerFilters          the answer filters of surveyLogic
\*   propertyFilters        the property filters of surveyLogic
\*   dateRange              the date range of surveyLogic
\*   showArchivedResponses  the 'Show archived' setting
\*   sqlHelperOpen          the state of SurveyResultsFiltersBar
\*   last                   the latest handler run, with its arguments
\*   prev                   answerFilters, showArchivedResponses and
\*                          sqlHelperOpen as that handler found them
\* An answer filter is a record [key, type, operator, value]; "absent" stands
\* for a field the object does not have.

\* the questions of the survey that have an id and operators to offer
QuestionIds == {"q1", "q2"}

\* getSurveyIdBasedResponseKey(questionId)
getSurveyIdBasedResponseKey(questionId) == "$survey_response_" \o questionId

\* PropertyOperator values offered by OPERATOR_OPTIONS
Operators == {"exact", "icontains", "is_set"}

\* the values PropertyValue hands to onSet
FilterValues == {"yes", "no"}

\* the key of a filter that is not an answer to a question of this survey
OtherKey == "$survey_iteration"

Filter(key, type, operator, value) ==
    [key |-> key, type |-> type, operator |-> operator, value |-> value]

OtherFilter == Filter(OtherKey, "person", "exact", "yes")

\* defaultAnswerFilters of surveyLogic: one filter for each question
defaultAnswerFilters ==
    <<Filter(getSurveyIdBasedResponseKey("q1"), "event", "exact", "absent"),
      Filter(getSurveyIdBasedResponseKey("q2"), "event", "icontains", "absent")>>

\* the answer filters the component can be mounted with: at most one filter
\* for each question key
InitialAnswerFilters ==
    {<<>>,
     defaultAnswerFilters,
     <<OtherFilter>>,
     <<Filter(getSurveyIdBasedResponseKey("q2"), "person", "absent", "no"), OtherFilter>>}

\* the survey: its dates as the query helpers read them
Surveys ==
    {[start_date |-> "2024-03-01", end_date |-> "null"],
     [start_date |-> "2024-03-01", end_date |-> "2024-04-01"]}

\* getSurveyStartDateForQuery(survey)
getSurveyStartDateForQuery(survey) == <<"startOfDay", survey.start_date>>

\* getSurveyEndDateForQuery(survey)
getSurveyEndDateForQuery(survey) ==
    IF survey.end_date # "null" THEN <<"endOfDay", survey.end_date>> ELSE <<"endOfDay", "now">>

\* the ranges DateFilter offers; a date is a pair of its kind and its text
DateRanges ==
    {[date_from |-> <<"relative", "-7d">>, date_to |-> <<"relative", "null">>],
     [date_from |-> <<"relative", "all">>, date_to |-> <<"relative", "null">>]}

PropertyFilterLists == {<<>>, <<Filter("$browser", "event", "exact", "yes")>>}

\* newFilters.findIndex((f) => f.key === getSurveyIdBasedResponseKey(questionId)),
\* counted from 1; 0 when there is none
findIndex(fs, questionId) ==
    IF \E k \in 1..Len(fs) : fs[k].key = getSurveyIdBasedResponseKey(questionId)
    THEN CHOOSE k \in 1..Len(fs) :
             /\ fs[k].key = getSurveyIdBasedResponseKey(questionId)
             /\ \A j \in 1..(k - 1) : fs[j].key # getSurveyIdBasedResponseKey(questionId)
    ELSE 0

\* an update that always pushes a new filter
updateFilterAlwaysPush(answerFilters, questionId, field, value) ==
    Append(answerFilters,
           [Filter(getSurveyIdBasedResponseKey(questionId), "event", "exact", "absent")
                EXCEPT ![field] = value])

\* updateFilter: the list it hands to setAnswerFilters
updateFilter(answerFilters, questionId, field, value) ==
    LET filterIndex == findIndex(answerFilters, questionId) IN
    IF filterIndex > 0
    THEN [answerFilters EXCEPT ![filterIndex] = [@ EXCEPT ![field] = value, !.type = "event"]]
    ELSE Append(answerFilters,
                [Filter(getSurveyIdBasedResponseKey(questionId), "event", "exact", "absent")
                     EXCEPT ![field] = value])

\* getFilterForQuestion(question.id)?.operator, "absent" when undefined
currentOperator(fs, questionId) ==
    IF findIndex(fs, questionId) > 0 THEN fs[findIndex(fs, questionId)].operator ELSE "absent"

\* a Reset that also switches 'Show archived' off
handleResetFiltersAll(f, survey) ==
    [f EXCEPT !.answerFilters = defaultAnswerFilters,
              !.propertyFilters = <<>>,
              !.dateRange = [date_from |-> getSurveyStartDateForQuery(survey),
                             date_to |-> getSurveyEndDateForQuery(survey)],
              !.showArchivedResponses = FALSE]

\* handleResetFilters
handleResetFilters(f, survey) ==
    [f EXCEPT !.answerFilters = defaultAnswerFilters,
              !.propertyFilters = <<>>,
              !.dateRange = [date_from |-> getSurveyStartDateForQuery(survey),
                             date_to |-> getSurveyEndDateForQuery(survey)]]

NoHandler == [kind |-> "none", questionId |-> "none", field |-> "none", value |-> "none"]

Handler(kind) == [NoHandler EXCEPT !.kind = kind]

Snapshot(f) ==
    [answerFilters |-> f.answerFilters,
     showArchivedResponses |-> f.showArchivedResponses,
     sqlHelperOpen |-> f.sqlHelperOpen]

InitFilters ==
    /\ \E sv \in Surveys, fs \in InitialAnswerFilters, ps \in PropertyFilterLists,
          dr \in DateRanges, arch \in BOOLEAN :
           filters = [survey |-> sv, answerFilters |-> fs, propertyFilters |-> ps,
                      dateRange |-> dr, showArchivedResponses |-> arch,
                      sqlHelperOpen |-> FALSE, last |-> NoHandler,
                      prev |-> [answerFilters |-> fs, showArchivedResponses |-> arch,
                                sqlHelperOpen |-> FALSE]]
    /\ MapperIdle
    /\ sidebar = <<>>
    /\ details = <<>>

FiltersFrame ==
    UNCHANGED <<heap, arg, pre, result, parsed, calls, inv, tables, todo, ui, sidebar, details>>

\* the component's values f as a handler leaves them, with the handler and
\* the values it found
Ran(f, last) == [f EXCEPT !.last = last, !.prev = Snapshot(filters)]

\* DateFilter onChange
ChangeDateRange ==
    \E dr \in DateRanges :
        /\ dr # filters.dateRange
        /\ filters' = Ran([filters EXCEPT !.dateRange = dr], Handler("setDateRange"))
        /\ FiltersFrame

\* PropertyFilters onChange
ChangePropertyFilters ==
    \E ps \in PropertyFilterLists :
        /\ ps # filters.propertyFilters
        /\ filters' = Ran([filters EXCEPT !.propertyFilters = ps], Handler("setPropertyFilters"))
        /\ FiltersFrame

\* the 'Show archived' switch
SwitchShowArchived ==
    /\ filters' = Ran([filters EXCEPT !.showArchivedResponses = ~@],
                       Handler("setShowArchivedResponses"))
    /\ FiltersFrame

\* the SQL button
OpenSqlHelper ==
    /\ ~filters.sqlHelperOpen
    /\ filters' = Ran([filters EXCEPT !.sqlHelperOpen = TRUE], Handler("openSql"))
    /\ FiltersFrame

\* onClose of SurveySQLHelper
CloseSqlHelper ==
    /\ filters.sqlHelperOpen
    /\ filters' = Ran([filters EXCEPT !.sqlHelperOpen = FALSE], Handler("closeSql"))
    /\ FiltersFrame

\* the Reset button
ClickReset ==
    /\ filters' = Ran(handleResetFilters(filters, filters.survey), Handler("reset"))
    /\ FiltersFrame

\* the operator select of the filter of one question
ChangeOperator ==
    \E q \in QuestionIds, op \in Operators :
        /\ filters' = Ran([filters EXCEPT !.answerFilters = updateFilter(@, q, "operator", op)],
                           [kind |-> "update", questionId |-> q, field |-> "operator",
                            value |-> op])
        /\ FiltersFrame

\* onSet of PropertyValue, which is drawn while the question's filter has an
\* operator other than IsSet and IsNotSet
SetValue ==
    \E q \in QuestionIds, v \in FilterValues :
        /\ currentOperator(filters.answerFilters, q) \notin {"absent", "is_set", "is_not_set"}
        /\ filters' = Ran([filters EXCEPT !.answerFilters = updateFilter(@, q, "value", v)],
                           [kind |-> "update", questionId |-> q, field |-> "value", value |-> v])
        /\ FiltersFrame

NextFilters ==
    \/ ChangeDateRange
    \/ ChangePropertyFilters
    \/ SwitchShowArchived
    \/ OpenSqlHelper
    \/ CloseSqlHelper
    \/ ClickReset
    \/ ChangeOperator
    \/ SetValue

SpecFilters == InitFilters /\ [][NextFilters]_vars

\* the positions of fs that hold a filter with the key
Holding(fs, key) == {k \in 1..Len(fs) : fs[k].key = key}

\* C24: an operator or value update for a question replaces the filter with
\* the question's response key, or appends one when there is none, and
\* leaves the other filters and their order alone; the list keeps at most
\* one filter for each question key; a filter an update creates has the
\* operator the update set, or Exact.
C24_UpdateTouchesOneFilter ==
    LET old == filters.prev.answerFilters
        new == filters.answerFilters
        u == filters.last
        key == "$survey_response_" \o u.questionId
        other == IF u.field = "operator" THEN "value" ELSE "operator"
    IN
    /\ \A q \in QuestionIds : Cardinality(Holding(new, "$survey_response_" \o q)) <= 1
    /\ (u.kind = "update" /\ Holding(old, key) # {}) =>
           /\ Len(new) = Len(old)
           /\ \A k \in 1..Len(old) :
                  IF k \in Holding(old, key)
                  THEN /\ new[k].key = key
                       /\ new[k][u.field] = u.value
                       /\ new[k][other] = old[k][other]
                  ELSE new[k] = old[k]
    /\ (u.kind = "update" /\ Holding(old, key) = {}) =>
           /\ Len(new) = Len(old) + 1
           /\ SubSeq(new, 1, Len(old)) = old
           /\ new[Len(new)].key = key
           /\ new[Len(new)].operator = (IF u.field = "operator" THEN u.value ELSE "exact")
    /\ \A q \in QuestionIds, v \in FilterValues :
           Holding(new, "$survey_response_" \o q) = {} =>
               LET made == updateFilter(new, q, "value", v) IN
               /\ Len(made) = Len(new) + 1
               /\ made[Len(made)].operator = "exact"
               /\ made[Len(made)].value = v

\* a value update replaced the second filter of three and kept the others
C24_Witness ==
    /\ filters.last.kind = "update"
    /\ filters.last.field = "value"
    /\ filters.last.questionId = "q1"
    /\ Len(filters.answerFilters) = 3
    /\ filters.answerFilters[1].key = "$survey_response_q2"
    /\ filters.answerFilters[2] = OtherFilter
    /\ filters.answerFilters[3].key = "$survey_response_q1"
    /\ filters.prev.answerFilters[3].value = "absent"
    /\ filters.answerFilters[3].value = "yes"

\* C25: Reset sets the answer filters to defaultAnswerFilters, the property
\* filters to the empty list and the date range to the survey's start and
\* end dates for queries, and leaves 'Show archived' and the SQL helper as
\* they were.
C25_ResetKeepsArchivedAndSql ==
    filters.last.kind = "reset" =>
        /\ filters.answerFilters = defaultAnswerFilters
        /\ filters.propertyFilters = <<>>
        /\ filters.dateRange = [date_from |-> getSurveyStartDateForQuery(filters.survey),
                                date_to |-> getSurveyEndDateForQuery(filters.survey)]
        /\ filters.showArchivedResponses = filters.prev.showArchivedResponses
        /\ filters.sqlHelperOpen = filters.prev.sqlHelperOpen

\* Reset with 'Show archived' on and the SQL helper open, after the answer
\* filters were changed
C25_Witness ==
    /\ filters.last.kind = "reset"
    /\ filters.showArchivedResponses
    /\ filters.sqlHelperOpen
    /\ filters.prev.answerFilters # defaultAnswerFilters
    /\ Len(filters.prev.answerFilters) = 3
    /\ filters.answerFilters = defaultAnswerFilters

\* ------------------------------------------------------------- DetailsPanel
\* details is a record:
\*   type               survey.type
\*   questions          survey.questions.length
\*   thankYou           survey.appearance?.displayThankYouMessage: "true",
\*                      "false" or "undefined"
\*   selectedPageIndex  <<>> for null, <<i>> for the number i
\*   last               the latest handler run: "submit" with the step
\*                      getNextSurveyStep returned, or "select"
\*   before             selectedPageIndex as that handler found it
\* A step is a record [end, index]: SurveyQuestionBranchingType.End, or the
\* index of a question.

\* a survey has at most MaxQuestions questions
MaxQuestions == 3

SurveyTypes == {"popover", "api"}

ThankYouValues == {"true", "false", "undefined"}

End == [end |-> TRUE, index |-> 0]

Question(i) == [end |-> FALSE, index |-> i]

\* the steps getNextSurveyStep returns for a survey of n questions: End or
\* the index of one of its questions
getNextSurveyStep(n) == {End} \cup {Question(i) : i \in 0..(n - 1)}

\* selectedPageIndex || 0
PageShown(selectedPageIndex) ==
    IF selectedPageIndex = <<>> THEN 0 ELSE selectedPageIndex[1]

\* the values of the options of the page selector
PageOptions(d) ==
    (0..(d.questions - 1)) \cup (IF d.thankYou = "true" THEN {d.questions} ELSE {})

\* a submission that moves to questions.length at End whatever the survey
\* displays
onPreviewSubmitNoReturn(d, nextStep) ==
    [d EXCEPT !.selectedPageIndex = IF nextStep.end THEN <<d.questions>> ELSE <<nextStep.index>>]

\* onPreviewSubmit
onPreviewSubmit(d, nextStep) ==
    IF nextStep.end /\ d.thankYou # "true"
    THEN d
    ELSE [d EXCEPT !.selectedPageIndex =
                       IF nextStep.end THEN <<d.questions>> ELSE <<nextStep.index>>]

NoStep == [end |-> FALSE, index |-> 0]

InitDetails ==
    /\ \E t \in SurveyTypes, n \in 1..MaxQuestions, ty \in ThankYouValues,
          sel \in {<<>>, <<0>>} :
           details = [type |-> t, questions |-> n, thankYou |-> ty,
                      selectedPageIndex |-> sel, last |-> "none", nextStep |-> NoStep,
                      before |-> sel]
    /\ MapperIdle
    /\ sidebar = <<>>
    /\ filters = <<>>

DetailsFrame ==
    UNCHANGED <<heap, arg, pre, result, parsed, calls, inv, tables, todo, ui, sidebar, filters>>

\* const isNonApiSurvey = survey.type !== SurveyType.API
isNonApiSurvey(d) == d.type # "api"

\* the user submits an answer in the preview
PreviewSubmit ==
    /\ isNonApiSurvey(details)
    /\ \E nextStep \in getNextSurveyStep(details.questions) :
           details' = [onPreviewSubmit(details, nextStep) EXCEPT
                           !.last = "submit", !.nextStep = nextStep,
                           !.before = details.selectedPageIndex]
    /\ DetailsFrame

\* the user picks a page in the page selector
SelectPage ==
    /\ isNonApiSurvey(details)
    /\ \E pageIndex \in PageOptions(details) :
           details' = [details EXCEPT !.selectedPageIndex = <<pageIndex>>,
                                      !.last = "select", !.nextStep = NoStep,
                                      !.before = details.selectedPageIndex]
    /\ DetailsFrame

NextDetails ==
    \/ PreviewSubmit
    \/ SelectPage

SpecDetails == InitDetails /\ [][NextDetails]_vars

\* C26: the selected page index is a question index from 0 to
\* questions.length - 1, or questions.length on a survey that displays a
\* thank-you message; a submission that ends a survey without a thank-you
\* message leaves the index as it was.
C26_SelectedPageOffered ==
    /\ PageShown(details.selectedPageIndex) >= 0
    /\ PageShown(details.selectedPageIndex) <= details.questions
    /\ PageShown(details.selectedPageIndex) = details.questions => details.thankYou = "true"
    /\ (details.last = "submit" /\ details.nextStep.end /\ details.thankYou # "true")
           => details.selectedPageIndex = details.before

\* a submission ended a survey without a thank-you message on its last
\* question
C26_Witness ==
    /\ details.last = "submit"
    /\ details.nextStep.end
    /\ details.thankYou = "false"
    /\ details.questions = 2
    /\ details.before = <<1>>
    /\ details.selectedPageIndex = <<1>>

====
